---- MODULE Spec2Model ----
(***************************************************************************)
(* Model of streamlit_app.py ("Streamlit Drive"): a session cursor         *)
(* (st.session_state.current_path) over a directory tree kept on the       *)
(* filesystem under STORAGE_DIR, and the handlers that mutate the tree.    *)
(*                                                                         *)
(* A name typed by the user is a sequence of one-character strings, so     *)
(* that str.strip(), the pathlib join and the operating system's path walk *)
(* are modelled by what they do.  A path component is such a sequence; a   *)
(* pathlib path is the sequence of its components (Path.parts), an         *)
(* absolute one starting with the component ROOT.  The filesystem is the   *)
(* set of its directory entries, each with its absolute path.              *)
(***************************************************************************)
EXTENDS Integers, Sequences, FiniteSets, TLC

VARIABLES fs, current_path

vars == <<fs, current_path>>

(***************************************************************************)
(* Bounds.                                                                 *)
(***************************************************************************)
\* Entries the tree may hold besides "/", the working directory and STORAGE_DIR.
MaxEntries == 3
\* Files selected for one click on "Upload".
MaxBatch == 2

(***************************************************************************)
(* Paths.                                                                  *)
(***************************************************************************)
\* The anchor pathlib puts first in the parts of an absolute path.
ROOT == <<"/">>

\* The ".." segment.
DOTDOT == <<".", ".">>

\* The "." segment.
DOT == <<".">>

\* The process's working directory, as an absolute filesystem path.
CWD == << <<"w">> >>

\* STORAGE_DIR = Path("file_storage"), relative to the working directory.
STORAGE_DIR == << <<"s">> >>

\* The absolute filesystem path of STORAGE_DIR.
StorageAbs == CWD \o STORAGE_DIR

\* Names a user can type or give an uploaded file.
Names ==
    { <<>>,                                  \* ""
      <<" ">>,                               \* " "
      <<"a">>,                               \* "a"
      <<"b">>,                               \* "b"
      <<".">>,                               \* "."
      <<".", ".">>,                          \* ".."
      <<".", ".", "/", "a">>,                \* "../a"
      <<".", ".", "/", ".", ".", "/", "a">>, \* "../../a"
      <<"/", "a">>,                          \* "/a"
      <<"a", "/", "b">> }                    \* "a/b"

\* Names typed into a rename form: those, and one padded with whitespace.
RenameNames == Names \cup { <<" ", "a", " ">> }

\* File contents.
Contents == {"c1", "c2"}

\* Names of the files offered to the uploader.
UploadNames == { <<"a">>, <<"A">>, <<"a", "/", "b">>, <<".", ".", "/", "a">> }

IsPrefix(p, q) == Len(p) <= Len(q) /\ SubSeq(q, 1, Len(p)) = p

\* str.strip(): drops leading and trailing whitespace.
RECURSIVE LStrip(_)
LStrip(s) == IF s # <<>> /\ Head(s) = " " THEN LStrip(Tail(s)) ELSE s

RECURSIVE RStrip(_)
RStrip(s) ==
    IF s # <<>> /\ s[Len(s)] = " " THEN RStrip(SubSeq(s, 1, Len(s) - 1)) ELSE s

Strip(s) == RStrip(LStrip(s))

\* The segments of a string between its "/" separators, empty ones included.
RECURSIVE Split(_, _)
Split(s, cur) ==
    IF s = <<>> THEN <<cur>>
    ELSE IF Head(s) = "/" THEN <<cur>> \o Split(Tail(s), <<>>)
    ELSE Split(Tail(s), Append(cur, Head(s)))

\* pathlib's parsing of a string: empty and "." segments are dropped, ".." is kept.
Parts(s) == SelectSeq(Split(s, <<>>), LAMBDA c : c # <<>> /\ c # DOT)

\* pathlib's "/" operator: an absolute right operand replaces the left one.
Join(base, s) ==
    IF s # <<>> /\ Head(s) = "/" THEN <<ROOT>> \o Parts(s) ELSE base \o Parts(s)

\* Path.parent of a path with at least one component besides its anchor.
Parent(p) == SubSeq(p, 1, Len(p) - 1)

\* Path.name
Name(p) == p[Len(p)]

\* Path.relative_to(base), for a path that starts with base.
RelativeTo(p, base) == SubSeq(p, Len(base) + 1, Len(p))

(***************************************************************************)
(* The filesystem.                                                         *)
(***************************************************************************)
Dir(p) == [path |-> p, kind |-> "dir", content |-> ""]

File(p, c) == [path |-> p, kind |-> "file", content |-> c]

HasEntry(f, p) == \E e \in f : e.path = p

IsDirAt(f, p) == \E e \in f : e.path = p /\ e.kind = "dir"

IsFileAt(f, p) == \E e \in f : e.path = p /\ e.kind = "file"

EntryAt(f, p) == CHOOSE e \in f : e.path = p

\* The entries of the subtree at p, p's own included.
Subtree(f, p) == {e \in f : IsPrefix(p, e.path)}

\* The entries directly inside directory p.
Children(f, p) == {e \in f : Len(e.path) = Len(p) + 1 /\ IsPrefix(p, e.path)}

\* The kernel's path walk from directory d over the components cs: every
\* component but the last must lead to an existing directory; ".." steps to
\* the parent, and the parent of "/" is "/".
RECURSIVE Walk(_, _, _)
Walk(f, d, cs) ==
    IF cs = <<>> THEN [ok |-> TRUE, path |-> d, err |-> ""]
    ELSE IF ~HasEntry(f, d) THEN [ok |-> FALSE, path |-> d, err |-> "FileNotFoundError"]
    ELSE IF ~IsDirAt(f, d) THEN [ok |-> FALSE, path |-> d, err |-> "NotADirectoryError"]
    ELSE IF Head(cs) = DOTDOT
         THEN Walk(f, IF d = <<>> THEN d ELSE Parent(d), Tail(cs))
    ELSE Walk(f, Append(d, Head(cs)), Tail(cs))

\* Resolution of a pathlib path by the operating system.
Resolve(f, p) ==
    IF p # <<>> /\ Head(p) = ROOT THEN Walk(f, <<>>, Tail(p)) ELSE Walk(f, CWD, p)

\* Mutant: the existence test sees directories only.
ExistsDirOnly(f, p) == LET r == Resolve(f, p) IN r.ok /\ IsDirAt(f, r.path)

\* Path.exists(): FALSE also when the walk fails.
Exists(f, p) == LET r == Resolve(f, p) IN r.ok /\ HasEntry(f, r.path)

\* Path.is_dir()
IsDir(f, p) == LET r == Resolve(f, p) IN r.ok /\ IsDirAt(f, r.path)

\* Path.is_file()
IsFile(f, p) == LET r == Resolve(f, p) IN r.ok /\ IsFileAt(f, r.path)

\* Path.mkdir(): the new tree, or the exception raised.
Mkdir(f, p) ==
    LET r == Resolve(f, p) IN
    IF ~r.ok THEN [fs |-> f, err |-> r.err]
    ELSE IF Exists(f, p) THEN [fs |-> f, err |-> "FileExistsError"]
    ELSE [fs |-> f \cup {Dir(r.path)}, err |-> ""]

\* Mutant: an existing file is opened without truncation and keeps its content.
WriteFileKeep(f, p, c) ==
    LET r == Resolve(f, p) IN
    IF ~r.ok THEN [fs |-> f, err |-> r.err]
    ELSE IF IsDirAt(f, r.path) THEN [fs |-> f, err |-> "IsADirectoryError"]
    ELSE IF IsFileAt(f, r.path) THEN [fs |-> f, err |-> ""]
    ELSE [fs |-> f \cup {File(r.path, c)}, err |-> ""]

\* open(p, "wb") followed by shutil.copyfileobj: creates or truncates the file.
WriteFile(f, p, c) ==
    LET r == Resolve(f, p) IN
    IF ~r.ok THEN [fs |-> f, err |-> r.err]
    ELSE IF IsDirAt(f, r.path) THEN [fs |-> f, err |-> "IsADirectoryError"]
    ELSE [fs |-> {e \in f : e.path # r.path} \cup {File(r.path, c)}, err |-> ""]

\* Mutant: only the node's own entry is carried over.
RebasedShallow(f, src, dst) ==
    { [e EXCEPT !.path = dst] : e \in {x \in f : x.path = src} }

\* The entries of the subtree at src, carried to dst.
Rebased(f, src, dst) ==
    { [e EXCEPT !.path = dst \o RelativeTo(e.path, src)] : e \in Subtree(f, src) }

\* os.rename(src, dst) on resolved paths, src existing.
OsRename(f, src, dst) ==
    IF dst = src THEN [fs |-> f, err |-> ""]
    ELSE IF IsPrefix(src, dst) THEN [fs |-> f, err |-> "OSError"]
    ELSE IF IsDirAt(f, dst) /\ IsFileAt(f, src) THEN [fs |-> f, err |-> "IsADirectoryError"]
    ELSE IF IsFileAt(f, dst) /\ IsDirAt(f, src) THEN [fs |-> f, err |-> "NotADirectoryError"]
    ELSE IF IsDirAt(f, dst) /\ Children(f, dst) # {} THEN [fs |-> f, err |-> "OSError"]
    ELSE [fs |-> ((f \ Subtree(f, src)) \ {e \in f : e.path = dst})
                    \cup Rebased(f, src, dst),
          err |-> ""]

\* Path.rename(target)
PathRename(f, old, new) ==
    LET s == Resolve(f, old)
        d == Resolve(f, new) IN
    IF ~s.ok THEN [fs |-> f, err |-> s.err]
    ELSE IF ~HasEntry(f, s.path) THEN [fs |-> f, err |-> "FileNotFoundError"]
    ELSE IF ~d.ok THEN [fs |-> f, err |-> d.err]
    ELSE OsRename(f, s.path, d.path)

(***************************************************************************)
(* Listing.                                                                *)
(***************************************************************************)
\* list(current_path.iterdir()): the children as pathlib paths; the call
\* raises when the directory cannot be listed.
IterdirError(f, p) ==
    LET r == Resolve(f, p) IN
    IF ~r.ok THEN r.err
    ELSE IF ~HasEntry(f, r.path) THEN "FileNotFoundError"
    ELSE IF ~IsDirAt(f, r.path) THEN "NotADirectoryError"
    ELSE ""

Iterdir(f, p) ==
    IF IterdirError(f, p) # "" THEN {}
    ELSE {Append(p, Name(e.path)) : e \in Children(f, Resolve(f, p).path)}

\* Mutant: the folder list is not filtered by is_dir().
FoldersUnfiltered(f, p) == Iterdir(f, p)

\* The entries listed as folders.
Folders(f, p) == {i \in Iterdir(f, p) : IsDir(f, i)}

\* The entries listed as files.
Files(f, p) == {i \in Iterdir(f, p) : IsFile(f, i)}

\* The code point of a character.
Ord(ch) ==
    CASE ch = " " -> 32
      [] ch = "." -> 46
      [] ch = "/" -> 47
      [] ch = "A" -> 65
      [] ch = "a" -> 97
      [] ch = "b" -> 98

\* str.lower()
Lower(n) == [i \in 1..Len(n) |-> IF n[i] = "A" THEN "a" ELSE n[i]]

\* x < y on strings: by code point, a proper prefix first.
RECURSIVE StrLess(_, _)
StrLess(x, y) ==
    IF y = <<>> THEN FALSE
    ELSE IF x = <<>> THEN TRUE
    ELSE IF Head(x) # Head(y) THEN Ord(Head(x)) < Ord(Head(y))
    ELSE StrLess(Tail(x), Tail(y))

\* sorted(items, key=lambda i: i.name.lower()): the sort is stable, so items
\* with equal keys keep the order they come in.
RECURSIVE SortedByLower(_)
SortedByLower(items) ==
    IF items = <<>> THEN <<>>
    ELSE LET front == SortedByLower(SubSeq(items, 1, Len(items) - 1))
             x == items[Len(items)]
             after == {i \in 1..Len(front) :
                          StrLess(Lower(Name(x)), Lower(Name(front[i])))}
             k == IF after = {} THEN Len(front) + 1
                  ELSE CHOOSE i \in after : \A j \in after : i <= j
         IN SubSeq(front, 1, k - 1) \o <<x>> \o SubSeq(front, k, Len(front))

\* folders, for the items in the order iterdir enumerated them.
sorted_folders(f, items) == SortedByLower(SelectSeq(items, LAMBDA i : IsDir(f, i)))

\* files, for the items in the order iterdir enumerated them.
sorted_files(f, items) == SortedByLower(SelectSeq(items, LAMBDA i : IsFile(f, i)))

\* Some order in which the filesystem enumerates a set of entries.
RECURSIVE SetToSeq(_)
SetToSeq(S) ==
    IF S = {} THEN <<>>
    ELSE LET x == CHOOSE y \in S : TRUE IN <<x>> \o SetToSeq(S \ {x})

\* root_dir.rglob('*'): every entry beneath p, each directory followed by
\* what it holds.
RECURSIVE RGlob(_, _)
RECURSIVE RGlobOver(_, _)
RGlob(f, p) == RGlobOver(f, SetToSeq(Iterdir(f, p)))

RGlobOver(f, kids) ==
    IF kids = <<>> THEN <<>>
    ELSE <<Head(kids)>>
         \o (IF IsDir(f, Head(kids)) THEN RGlob(f, Head(kids)) ELSE <<>>)
         \o RGlobOver(f, Tail(kids))

\* Mutant: the root itself is not included.
get_all_folders_without_root(f, root_dir) ==
    SelectSeq(RGlob(f, root_dir), LAMBDA p : IsDir(f, p))

get_all_folders(f, root_dir) ==
    <<STORAGE_DIR>> \o SelectSeq(RGlob(f, root_dir), LAMBDA p : IsDir(f, p))

\* The keys of a dict built by inserting ks in order.
RECURSIVE DictKeys(_, _)
DictKeys(ks, acc) ==
    IF ks = <<>> THEN acc
    ELSE DictKeys(Tail(ks),
                  IF \E i \in 1..Len(acc) : acc[i] = Head(ks)
                  THEN acc ELSE Append(acc, Head(ks)))

\* folder_options.keys(): the destinations offered for a file, relative to
\* STORAGE_DIR.
folder_options(f, file) ==
    LET kept == SelectSeq(get_all_folders(f, STORAGE_DIR),
                          LAMBDA p : p # Parent(file))
    IN DictKeys([i \in 1..Len(kept) |-> RelativeTo(kept[i], STORAGE_DIR)], <<>>)

(***************************************************************************)
(* Handlers.  Each yields the tree, the cursor and the outcome shown:      *)
(* "ok", "InvalidName" (the warning), "AlreadyExists", "Ignored" (nothing  *)
(* done, nothing shown), "Reported" (an exception caught and shown by      *)
(* st.error) or "Uncaught" (an exception that leaves the script).          *)
(***************************************************************************)
Result(f, cur, outcome, err) ==
    [fs |-> f, cur |-> cur, outcome |-> outcome, err |-> err]

\* Mutant: the target's existence is not tested before renaming.
handle_rename_unchecked(f, cur, old_path, new_name) ==
    IF Strip(new_name) = <<>> THEN Result(f, cur, "InvalidName", "")
    ELSE LET new_path == Join(Parent(old_path), Strip(new_name))
             r == PathRename(f, old_path, new_path) IN
         IF r.err = "" THEN Result(r.fs, cur, "ok", "")
         ELSE Result(f, cur, "Reported", r.err)

handle_rename(f, cur, old_path, new_name) ==
    IF Strip(new_name) = <<>> THEN Result(f, cur, "InvalidName", "")
    ELSE LET new_path == Join(Parent(old_path), Strip(new_name)) IN
         IF Exists(f, new_path) THEN Result(f, cur, "AlreadyExists", "")
         ELSE LET r == PathRename(f, old_path, new_path) IN
              IF r.err = "" THEN Result(r.fs, cur, "ok", "")
              ELSE Result(f, cur, "Reported", r.err)

\* The loop of the "Upload" button over the selected files.
RECURSIVE Upload(_, _, _)
Upload(f, cur, uploaded_files) ==
    IF uploaded_files = <<>> THEN Result(f, cur, "ok", "")
    ELSE LET up_file == Head(uploaded_files)
             save_path == Join(cur, up_file.name)
             w == WriteFile(f, save_path, up_file.content) IN
         IF w.err # "" THEN Result(f, cur, "Uncaught", w.err)
         ELSE Upload(w.fs, cur, Tail(uploaded_files))

\* Mutant: mkdir is called without testing that the path is free.
CreateFolderUnchecked(f, cur, folder_name) ==
    IF folder_name = <<>> THEN Result(f, cur, "Ignored", "")
    ELSE LET m == Mkdir(f, Join(cur, folder_name)) IN
         IF m.err = "" THEN Result(m.fs, cur, "ok", "")
         ELSE Result(f, cur, "Uncaught", m.err)

\* The "Create Folder" form.
CreateFolder(f, cur, folder_name) ==
    IF folder_name = <<>> THEN Result(f, cur, "Ignored", "")
    ELSE LET new_folder_path == Join(cur, folder_name) IN
         IF ~Exists(f, new_folder_path)
         THEN LET m == Mkdir(f, new_folder_path) IN
              IF m.err = "" THEN Result(m.fs, cur, "ok", "")
              ELSE Result(f, cur, "Uncaught", m.err)
         ELSE Result(f, cur, "AlreadyExists", "")

\* The "Home" button.
Home(f, cur) == Result(f, STORAGE_DIR, "ok", "")

\* The breadcrumb button of the i-th component (0-based) of the cursor.
Breadcrumb(f, cur, i) ==
    LET path_parts == RelativeTo(cur, STORAGE_DIR) IN
    Result(f, STORAGE_DIR \o SubSeq(path_parts, 1, i + 1), "ok", "")

\* The button of a listed folder.
NavigateInto(f, cur, folder) == Result(f, folder, "ok", "")

\* Mutant: only the folder's own entry is removed.
RmtreeShallow(f, p) == {e \in f : e.path # Resolve(f, p).path}

\* shutil.rmtree(folder)
Rmtree(f, p) == f \ Subtree(f, Resolve(f, p).path)

\* Mutant: the button removes the folder being listed, not the listed one.
DeleteFolderCursor(f, cur, folder) == Result(Rmtree(f, cur), cur, "ok", "")

\* The "Delete Folder" button.
DeleteFolder(f, cur, folder) == Result(Rmtree(f, folder), cur, "ok", "")

\* Mutant: deleting a file also sends the cursor back to STORAGE_DIR.
DeleteFileGoHome(f, cur, file) ==
    Result({e \in f : e.path # Resolve(f, file).path}, STORAGE_DIR, "ok", "")

\* The "Delete File" button: file.unlink().
DeleteFile(f, cur, file) ==
    Result({e \in f : e.path # Resolve(f, file).path}, cur, "ok", "")

\* Mutant: the move replaces what the destination holds under that name.
ShutilMoveOverwrite(f, src, dst) ==
    PathRename(f, src, IF IsDir(f, dst) THEN Append(dst, Name(src)) ELSE dst)

\* Mutant: the file is copied and the source is left in place.
ShutilCopy(f, src, dst) ==
    LET real_dst == IF IsDir(f, dst) THEN Append(dst, Name(src)) ELSE dst IN
    IF IsDir(f, dst) /\ Exists(f, real_dst) THEN [fs |-> f, err |-> "Error"]
    ELSE WriteFile(f, real_dst, EntryAt(f, Resolve(f, src).path).content)

\* shutil.move(src, dst)
ShutilMove(f, src, dst) ==
    LET real_dst == IF IsDir(f, dst) THEN Append(dst, Name(src)) ELSE dst IN
    IF IsDir(f, dst) /\ Exists(f, real_dst) THEN [fs |-> f, err |-> "Error"]
    ELSE PathRename(f, src, real_dst)

\* Mutant: the lookup of the selected destination is outside the try block.
MoveFileUncaught(f, cur, file, choice) ==
    LET options == folder_options(f, file) IN
    IF choice = 0 THEN Result(f, cur, "Uncaught", "KeyError")
    ELSE LET destination_path == STORAGE_DIR \o options[choice]
             m == ShutilMove(f, file, destination_path) IN
         IF m.err = "" THEN Result(m.fs, cur, "ok", "")
         ELSE Result(f, cur, "Reported", m.err)

\* The "Move File" form; choice is the position of the selected destination
\* among the options, 0 when the selectbox has none to offer.
MoveFile(f, cur, file, choice) ==
    LET options == folder_options(f, file) IN
    IF choice = 0 THEN Result(f, cur, "Reported", "KeyError")
    ELSE LET destination_path == STORAGE_DIR \o options[choice]
             m == ShutilMove(f, file, destination_path) IN
         IF m.err = "" THEN Result(m.fs, cur, "ok", "")
         ELSE Result(f, cur, "Reported", m.err)

\* A run of the script with no button pressed: breadcrumbs and listing.
Redraw(f, cur) ==
    IF IterdirError(f, cur) = "" THEN Result(f, cur, "ok", "")
    ELSE Result(f, cur, "Reported", IterdirError(f, cur))

(***************************************************************************)
(* The session.                                                            *)
(***************************************************************************)
Init ==
    /\ fs = {Dir(<<>>), Dir(CWD), Dir(StorageAbs)}
    /\ current_path = STORAGE_DIR

\* One run of the script: the handler's effect on the tree and the cursor.
Apply(r) ==
    /\ Cardinality(r.fs) <= 3 + MaxEntries
    /\ fs' = r.fs
    /\ current_path' = r.cur

\* The files offered to the uploader: every name, the one-component names
\* with either content.
UploadFiles ==
    {u \in [name : UploadNames, content : Contents] :
        Len(Split(u.name, <<>>)) = 1 \/ u.content = "c1"}

Batches == UNION {[1..n -> UploadFiles] : n \in 1..MaxBatch}

DoUpload == \E b \in Batches : Apply(Upload(fs, current_path, b))

DoCreateFolder == \E n \in Names : Apply(CreateFolder(fs, current_path, n))

DoHome == Apply(Home(fs, current_path))

DoBreadcrumb ==
    \E i \in 0..(Len(current_path) - Len(STORAGE_DIR) - 2) :
        Apply(Breadcrumb(fs, current_path, i))

DoNavigateInto ==
    \E folder \in Folders(fs, current_path) :
        Apply(NavigateInto(fs, current_path, folder))

DoRenameFolder ==
    \E folder \in Folders(fs, current_path), n \in RenameNames :
        Apply(handle_rename(fs, current_path, folder, n))

DoRenameFile ==
    \E file \in Files(fs, current_path), n \in RenameNames :
        Apply(handle_rename(fs, current_path, file, n))

DoDeleteFolder ==
    \E folder \in Folders(fs, current_path) :
        Apply(DeleteFolder(fs, current_path, folder))

DoDeleteFile ==
    \E file \in Files(fs, current_path) :
        Apply(DeleteFile(fs, current_path, file))

DoMoveFile ==
    \E file \in Files(fs, current_path) :
        LET n == Len(folder_options(fs, file)) IN
        \E choice \in (IF n = 0 THEN {0} ELSE 1..n) :
            Apply(MoveFile(fs, current_path, file, choice))

DoRedraw == Apply(Redraw(fs, current_path))

Next ==
    \/ DoCreateFolder
    \/ DoUpload
    \/ DoHome
    \/ DoBreadcrumb
    \/ DoNavigateInto
    \/ DoRenameFolder
    \/ DoRenameFile
    \/ DoDeleteFolder
    \/ DoDeleteFile
    \/ DoMoveFile
    \/ DoRedraw

Spec == Init /\ [][Next]_vars

\* Another session on the same STORAGE_DIR deletes a folder it lists.
ExternalDelete ==
    \E e \in fs :
        /\ e.kind = "dir"
        /\ IsPrefix(StorageAbs, e.path)
        /\ e.path # StorageAbs
        /\ fs' = fs \ Subtree(fs, e.path)
        /\ current_path' = current_path

NextEnv == Next \/ ExternalDelete

SpecEnv == Init /\ [][NextEnv]_vars

(***************************************************************************)
(* Properties.                                                             *)
(***************************************************************************)
\* The absolute filesystem path of a pathlib path made of plain components
\* beneath the working directory.
Abs(p) == CWD \o p

\* A name is plain when it is not empty after trimming, holds no separator
\* and is neither "." nor "..".
PlainName(n) ==
    /\ Strip(n) # <<>>
    /\ \A i \in 1..Len(n) : n[i] # "/"
    /\ n # DOT
    /\ n # DOTDOT

\* A name the name validation is to reject: empty after trimming, or holding
\* a separator or a ".." segment.
RejectedName(n) ==
    \/ Strip(n) = <<>>
    \/ \E i \in 1..Len(n) : n[i] = "/"
    \/ \E i \in 1..Len(Split(n, <<>>)) : Split(n, <<>>)[i] = DOTDOT

\* The cursor denotes an existing folder that is STORAGE_DIR or beneath it.
NavValid ==
    /\ IsPrefix(STORAGE_DIR, current_path)
    /\ \A i \in 1..Len(current_path) : current_path[i] # DOTDOT
    /\ IsDirAt(fs, Abs(current_path))

\* C1. Scope containment: every node of the tree other than "/" and the
\* working directory lies within STORAGE_DIR; no operation creates, writes
\* or renames a node to a place outside it.
C1_ScopeContainment ==
    \A e \in fs : e.path \in {<<>>, CWD} \/ IsPrefix(StorageAbs, e.path)

C3_NavigationValid == NavValid

\* The cursor is two folders deep, in a folder that holds a node to rename,
\* move or delete.
C3_Witness ==
    /\ Len(current_path) = Len(STORAGE_DIR) + 2
    /\ Iterdir(fs, current_path) # {}

\* C4. Stale recovery: the cursor that a read (a run of the script that draws
\* the breadcrumbs and the listing) leaves denotes an existing folder that is
\* STORAGE_DIR or beneath it, also when another session deleted the folder it
\* pointed to.
C4_StaleRecovery ==
    LET r == Redraw(fs, current_path) IN
    /\ IsPrefix(STORAGE_DIR, r.cur)
    /\ IsDirAt(r.fs, Abs(r.cur))

\* C5. Rename atomicity: a rename refused with AlreadyExists leaves the tree
\* and the cursor unchanged, and a rename to the name of an existing sibling
\* (the node's own name included) is refused with AlreadyExists.
C5_RenameAtomicity ==
    \A old \in Iterdir(fs, current_path), n \in RenameNames :
        LET r == handle_rename(fs, current_path, old, n) IN
        /\ r.outcome = "AlreadyExists" => r.fs = fs /\ r.cur = current_path
        /\ (PlainName(Strip(n)) /\ HasEntry(fs, Append(Abs(Parent(old)), Strip(n))))
              => r.outcome = "AlreadyExists" /\ r.fs = fs

\* A listed file can be renamed to the name of a sibling folder that holds
\* something, and the rename is refused.
C5_Witness ==
    \E old \in Files(fs, current_path), other \in Folders(fs, current_path) :
        /\ Iterdir(fs, other) # {}
        /\ handle_rename(fs, current_path, old, Name(other)).outcome = "AlreadyExists"

CreateStep(n) == Apply(CreateFolder(fs, current_path, n))

RenameStep(old, n) == Apply(handle_rename(fs, current_path, old, n))

UploadStep(b) == Apply(Upload(fs, current_path, b))

\* C6. Name validation: createFolder, rename and saveFile reject every name
\* that is empty after trimming or holds a separator or a ".." segment, so a
\* step of one of them with such a name leaves the tree unchanged; no
\* whitespace-named folder is ever created.
C6_NameValidation ==
    [][ /\ \A n \in Names :
              RejectedName(n) /\ CreateStep(n) => fs' = fs
        /\ \A old \in Iterdir(fs, current_path), n \in RenameNames :
              RejectedName(n) /\ RenameStep(old, n) => fs' = fs
        /\ \A u \in UploadFiles :
              RejectedName(u.name) /\ UploadStep(<<u>>) => fs' = fs ]_vars

\* C7. createFolder collision: with a plain name, createFolder in the current
\* folder is refused with AlreadyExists and changes nothing when the folder
\* has a child of that name (file or folder), and otherwise adds exactly one
\* empty folder of that name and changes nothing else.
C7_CreateFolderCollision ==
    \A n \in RenameNames :
        PlainName(n) =>
            LET r == CreateFolder(fs, current_path, n)
                p == Append(Abs(current_path), n) IN
            /\ r.cur = current_path
            /\ IF HasEntry(fs, p)
               THEN r.outcome = "AlreadyExists" /\ r.fs = fs
               ELSE r.outcome = "ok" /\ r.fs = fs \cup {Dir(p)} /\ Dir(p) \notin fs

\* In a subfolder, one plain name is held by a folder with content, where
\* createFolder is refused, and another is free, where it succeeds.
C7_Witness ==
    /\ current_path # STORAGE_DIR
    /\ \E folder \in Folders(fs, current_path) :
          /\ Iterdir(fs, folder) # {}
          /\ CreateFolder(fs, current_path, Name(folder)).outcome = "AlreadyExists"
    /\ \E n \in Names :
          PlainName(n) /\ CreateFolder(fs, current_path, n).outcome = "ok"

\* Where the offered destination number choice would hold the file.
MoveTarget(file, choice) ==
    Append(Abs(STORAGE_DIR \o folder_options(fs, file)[choice]), Name(file))

\* C8 as stated. Move overwrite policy: a move into a folder that holds a file
\* of the same name succeeds and overwrites it: the destination then holds the
\* moved content and the file is gone from its old parent.
C8_MoveOverwrites ==
    \A file \in Files(fs, current_path) :
        \A choice \in 1..Len(folder_options(fs, file)) :
            IsFileAt(fs, MoveTarget(file, choice))
                => LET r == MoveFile(fs, current_path, file, choice) IN
                   /\ r.outcome = "ok"
                   /\ File(MoveTarget(file, choice), EntryAt(fs, Abs(file)).content)
                          \in r.fs
                   /\ ~HasEntry(r.fs, Abs(file))

\* C8 as amended. A move into a folder that already holds a child of the same
\* name (file or folder) is refused: shutil.move raises Error, the error is
\* reported, and the tree and the cursor are unchanged.
C8_MoveCollisionRefused ==
    \A file \in Files(fs, current_path) :
        \A choice \in 1..Len(folder_options(fs, file)) :
            HasEntry(fs, MoveTarget(file, choice))
                => LET r == MoveFile(fs, current_path, file, choice) IN
                   /\ r.outcome = "Reported"
                   /\ r.err = "Error"
                   /\ r.fs = fs
                   /\ r.cur = current_path

\* A listed file and a file of the same name and other content in an offered
\* destination: the move is refused.
C8_Witness ==
    \E file \in Files(fs, current_path) :
        \E choice \in 1..Len(folder_options(fs, file)) :
            /\ IsFileAt(fs, MoveTarget(file, choice))
            /\ EntryAt(fs, MoveTarget(file, choice)).content
                  # EntryAt(fs, Abs(file)).content
            /\ MoveFile(fs, current_path, file, choice).err = "Error"

\* C9. Move preserves content and name: a move of a listed file to an offered
\* destination with no child of that name succeeds, puts a file of the same
\* name and content in the destination, removes the file from its old parent
\* and changes no other node.
C9_MovePreserves ==
    \A file \in Files(fs, current_path) :
        \A choice \in 1..Len(folder_options(fs, file)) :
            LET d == MoveTarget(file, choice)
                e == EntryAt(fs, Abs(file))
                r == MoveFile(fs, current_path, file, choice) IN
            ~HasEntry(fs, d)
                => /\ r.outcome = "ok"
                   /\ r.cur = current_path
                   /\ r.fs = (fs \ {e}) \cup {File(d, e.content)}
                   /\ d # e.path

\* A listed file among other nodes can be moved into a subfolder that does
\* not hold its name, and the move succeeds.
C9_Witness ==
    /\ Cardinality(fs) = 3 + MaxEntries
    /\ \E file \in Files(fs, current_path) :
          \E choice \in 1..Len(folder_options(fs, file)) :
              /\ folder_options(fs, file)[choice] # <<>>
              /\ ~HasEntry(fs, MoveTarget(file, choice))
              /\ MoveFile(fs, current_path, file, choice).outcome = "ok"

\* The folders of the tree, STORAGE_DIR and all beneath it, as pathlib paths.
AllFolders ==
    {RelativeTo(e.path, CWD) : e \in {x \in fs : x.kind = "dir" /\ IsPrefix(StorageAbs, x.path)}}

\* The files beneath STORAGE_DIR, as pathlib paths.
AllFiles ==
    {RelativeTo(e.path, CWD) : e \in {x \in fs : x.kind = "file" /\ IsPrefix(StorageAbs, x.path)}}

\* C10. enumerateDestinations: for every file of the tree the destinations
\* offered are exactly STORAGE_DIR and the folders beneath it, minus the
\* file's parent, none listed twice.
C10_Destinations ==
    \A file \in AllFiles :
        LET options == folder_options(fs, file) IN
        /\ \A i, j \in 1..Len(options) : options[i] = options[j] => i = j
        /\ {STORAGE_DIR \o options[i] : i \in 1..Len(options)}
              = AllFolders \ {Parent(file)}

\* A listed file lies in a subfolder, and STORAGE_DIR and another folder are
\* offered as its destinations.
C10_Witness ==
    \E file \in Files(fs, current_path) :
        /\ Parent(file) # STORAGE_DIR
        /\ Len(folder_options(fs, file)) >= 2

\* C11. Recursive delete: deleting a listed folder removes the folder and
\* every descendant at any depth and nothing else; the folder is no longer
\* listed in its parent, and every node outside the subtree is unchanged.
\* Deleting a listed file removes that file and nothing else.
C11_RecursiveDelete ==
    /\ \A folder \in Folders(fs, current_path) :
          LET r == DeleteFolder(fs, current_path, folder) IN
          /\ r.outcome = "ok"
          /\ \A e \in fs : e \in r.fs <=> ~IsPrefix(Abs(folder), e.path)
          /\ r.fs \subseteq fs
          /\ folder \notin Iterdir(r.fs, current_path)
    /\ \A file \in Files(fs, current_path) :
          LET r == DeleteFile(fs, current_path, file) IN
          /\ r.outcome = "ok"
          /\ r.fs = fs \ {EntryAt(fs, Abs(file))}
          /\ file \notin Iterdir(r.fs, current_path)

\* A listed folder holds a folder that holds a file: descendants two deep.
C11_Witness ==
    \E folder \in Folders(fs, current_path) :
        \E sub \in Folders(fs, folder) : Files(fs, sub) # {}

RECURSIVE BestEffort(_, _, _)
BestEffort(f, cur, b) ==
    IF b = <<>> THEN f
    ELSE LET w == WriteFile(f, Join(cur, Head(b).name), Head(b).content) IN
         BestEffort(IF w.err = "" THEN w.fs ELSE f, cur, Tail(b))

\* C13. Best-effort batch upload: when saving pair k of a batch fails (a
\* folder named like it exists in the current folder), the pairs before it
\* stay saved and the pairs after it are still attempted and saved; the
\* batch leaves the tree that saving each pair on its own leaves.  Stated for
\* batches of plainly named files.
C13_BestEffortUpload ==
    \A b \in Batches :
        (\A k \in 1..Len(b) : PlainName(b[k].name))
            => Upload(fs, current_path, b).fs = BestEffort(fs, current_path, b)

\* C14. saveFile overwrite: a plainly named file uploaded where no folder
\* holds its name is saved; afterwards the current folder holds under that
\* name one file whose content is exactly the uploaded content, whether or
\* not a file of that name existed, every other node is as before, and
\* uploading the same pair again, or twice in one batch, gives the same tree.
C14_SaveFileOverwrite ==
    \A u \in UploadFiles :
        LET p == Append(Abs(current_path), u.name)
            r == Upload(fs, current_path, <<u>>) IN
        (PlainName(u.name) /\ ~IsDirAt(fs, p))
            => /\ r.outcome = "ok"
               /\ r.cur = current_path
               /\ \A e \in r.fs : e.path = p <=> e = File(p, u.content)
               /\ File(p, u.content) \in r.fs
               /\ \A e \in fs : e.path # p => e \in r.fs
               /\ \A e \in r.fs : e.path # p => e \in fs
               /\ Upload(r.fs, current_path, <<u>>).fs = r.fs
               /\ Upload(fs, current_path, <<u, u>>).fs = r.fs

\* The current folder, a subfolder, holds a file whose name is uploaded again
\* with another content.
C14_Witness ==
    /\ current_path # STORAGE_DIR
    /\ \E u \in UploadFiles :
          /\ PlainName(u.name)
          /\ IsFileAt(fs, Append(Abs(current_path), u.name))
          /\ EntryAt(fs, Append(Abs(current_path), u.name)).content # u.content
          /\ Upload(fs, current_path, <<u>>).outcome = "ok"

\* The orders in which the filesystem may enumerate a set of entries.
Enumerations(S) ==
    {q \in [1..Cardinality(S) -> S] : \A i, j \in 1..Cardinality(S) : q[i] = q[j] => i = j}

\* Name x comes before name y: case-insensitively, and by case-sensitive
\* order when the two are equal ignoring case.
NameBefore(x, y) ==
    \/ StrLess(Lower(x), Lower(y))
    \/ Lower(x) = Lower(y) /\ StrLess(x, y)

\* A listing is in the order the claim gives.
InNameOrder(q) == \A i, j \in 1..Len(q) : i < j => NameBefore(Name(q[i]), Name(q[j]))

\* C15. Deterministic listing order: whatever the order in which the
\* filesystem enumerates the current folder, the folders and the files listed
\* are each sorted by name case-insensitively ascending, names equal ignoring
\* case in case-sensitive order, so the listing depends only on the set of
\* children.
C15_ListingOrder ==
    \A items \in Enumerations(Iterdir(fs, current_path)) :
        /\ InNameOrder(sorted_folders(fs, items))
        /\ InNameOrder(sorted_files(fs, items))

\* C16. Outermost error boundary: whichever operation a failure arises in
\* (upload, create folder, rename, move, delete, breadcrumbs, listing), it is
\* caught and reported; no operation ends in a failure that leaves the script
\* uncaught.  Stated for plain names only.
C16_ErrorBoundary ==
    /\ \A b \in Batches :
           (\A k \in 1..Len(b) : PlainName(b[k].name))
               => Upload(fs, current_path, b).outcome # "Uncaught"
    /\ \A n \in Names :
           PlainName(n) => CreateFolder(fs, current_path, n).outcome # "Uncaught"
    /\ \A old \in Iterdir(fs, current_path), n \in RenameNames :
           PlainName(Strip(n))
               => handle_rename(fs, current_path, old, n).outcome # "Uncaught"
    /\ \A file \in Files(fs, current_path) :
           \A choice \in 0..Len(folder_options(fs, file)) :
               MoveFile(fs, current_path, file, choice).outcome # "Uncaught"
    /\ \A folder \in Folders(fs, current_path) :
           DeleteFolder(fs, current_path, folder).outcome # "Uncaught"
    /\ \A file \in Files(fs, current_path) :
           DeleteFile(fs, current_path, file).outcome # "Uncaught"
    /\ \A i \in 0..(Len(current_path) - Len(STORAGE_DIR) - 2) :
           Breadcrumb(fs, current_path, i).outcome # "Uncaught"
    /\ Redraw(fs, current_path).outcome # "Uncaught"

\* C17. StorageRoot is permanent: in every reachable state StorageRoot
\* exists as a folder under its original path; no item offered for delete,
\* rename or move is StorageRoot itself, and no operation, whatever name it
\* is given, yields a tree without it.
C17_StorageRootPermanent ==
    /\ IsDirAt(fs, StorageAbs)
    /\ \A item \in Iterdir(fs, current_path) :
           /\ item # STORAGE_DIR
           /\ Resolve(fs, item).path # StorageAbs
    /\ \A folder \in Folders(fs, current_path) :
           IsDirAt(DeleteFolder(fs, current_path, folder).fs, StorageAbs)
    /\ \A file \in Files(fs, current_path) :
           /\ IsDirAt(DeleteFile(fs, current_path, file).fs, StorageAbs)
           /\ \A choice \in 0..Len(folder_options(fs, file)) :
                  IsDirAt(MoveFile(fs, current_path, file, choice).fs, StorageAbs)
    /\ \A old \in Iterdir(fs, current_path), n \in RenameNames :
           IsDirAt(handle_rename(fs, current_path, old, n).fs, StorageAbs)

\* In StorageRoot a folder is deleted, a file is moved and an item is renamed.
C17_Witness ==
    /\ current_path = STORAGE_DIR
    /\ \E folder \in Folders(fs, current_path) :
           DeleteFolder(fs, current_path, folder).fs # fs
    /\ \E file \in Files(fs, current_path) :
           /\ MoveFile(fs, current_path, file, 1).outcome = "ok"
           /\ \E n \in RenameNames :
                  handle_rename(fs, current_path, file, n).outcome = "ok"

\* C18. Frame separation between cursor and tree: entering a folder, Home
\* and the breadcrumbs change only the cursor and leave the tree unchanged;
\* create folder, upload, rename, move and delete leave the cursor unchanged,
\* whether they succeed or fail.
C18_FrameSeparation ==
    /\ Home(fs, current_path).fs = fs
    /\ \A i \in 0..(Len(current_path) - Len(STORAGE_DIR) - 2) :
           Breadcrumb(fs, current_path, i).fs = fs
    /\ \A folder \in Folders(fs, current_path) :
           /\ NavigateInto(fs, current_path, folder).fs = fs
           /\ DeleteFolder(fs, current_path, folder).cur = current_path
    /\ \A n \in Names : CreateFolder(fs, current_path, n).cur = current_path
    /\ \A u, v \in UploadFiles :
           /\ Upload(fs, current_path, <<u>>).cur = current_path
           /\ Upload(fs, current_path, <<u, v>>).cur = current_path
    /\ \A old \in Iterdir(fs, current_path), n \in RenameNames :
           handle_rename(fs, current_path, old, n).cur = current_path
    /\ \A file \in Files(fs, current_path) :
           /\ DeleteFile(fs, current_path, file).cur = current_path
           /\ \A choice \in 0..Len(folder_options(fs, file)) :
                  MoveFile(fs, current_path, file, choice).cur = current_path

\* Inside a subfolder that lists a file and a folder: Home moves the cursor,
\* deleting the file changes the tree, and an upload onto the folder's name
\* fails.
C18_Witness ==
    /\ current_path # STORAGE_DIR
    /\ Home(fs, current_path).cur # current_path
    /\ \E file \in Files(fs, current_path) :
           DeleteFile(fs, current_path, file).fs # fs
    /\ \E u \in UploadFiles :
           Upload(fs, current_path, <<u>>).outcome = "Uncaught"

\* C19. Move with no available destination: when no destination is offered
\* for a listed file (it is in StorageRoot and StorageRoot has no
\* subfolders), submitting the move form ends in a reported error and leaves
\* the tree and the cursor unchanged: the file is neither moved, duplicated
\* nor deleted.
C19_MoveNoDestination ==
    \A file \in Files(fs, current_path) :
        /\ folder_options(fs, file) = <<>>
               <=> (Parent(file) = STORAGE_DIR /\ AllFolders = {STORAGE_DIR})
        /\ folder_options(fs, file) = <<>> =>
               LET r == MoveFile(fs, current_path, file, 0) IN
               /\ r.outcome = "Reported"
               /\ r.fs = fs
               /\ r.cur = current_path

\* A file is listed in StorageRoot, which has no subfolder.
C19_Witness ==
    \E file \in Files(fs, current_path) :
        /\ folder_options(fs, file) = <<>>
        /\ MoveFile(fs, current_path, file, 0).err = "KeyError"

====
